---- MODULE Spec2Model ----
(***************************************************************************)
(* Model of the todo backend: the request schemas (app/schemas/todo.py),   *)
(* the service (app/services/todo.py), the repository                      *)
(* (app/repositories/todo.py), the ORM model (app/models/todo.py) and the  *)
(* status mapping of the router (app/routers/todo.py).                     *)
(*                                                                         *)
(* A string is kept as its run-length shape [lead, body, trail]: the       *)
(* number of leading whitespace characters, the length of the part from    *)
(* the first to the last non-whitespace character, and the number of       *)
(* trailing whitespace characters.  A whitespace-only string of n          *)
(* characters is [lead |-> n, body |-> 0, trail |-> 0].  len() and strip() *)
(* are computed on that shape.                                             *)
(***************************************************************************)
EXTENDS Integers, FiniteSets, Sequences, TLC

VARIABLES store, nextId, now, request, result, held, calls

vars == <<store, nextId, now, request, result, held, calls>>

----------------------------------------------------------------------------
(* Bounds of the exploration *)

MaxTodos == 2
MaxTime == 1
MaxCalls == 2

----------------------------------------------------------------------------
(* Program constants *)

TITLE_MAX_LENGTH == 200
DESCRIPTION_MAX_LENGTH == 1000

HTTP_200_OK == 200
HTTP_201_CREATED == 201
HTTP_204_NO_CONTENT == 204
HTTP_404_NOT_FOUND == 404
HTTP_422_UNPROCESSABLE_ENTITY == 422
HTTP_500_INTERNAL_SERVER_ERROR == 500

----------------------------------------------------------------------------
(* Values *)

Unset == [k |-> "unset"]
Null == [k |-> "null"]
Str(l, b, t) == [k |-> "str", lead |-> l, body |-> b, trail |-> t]
Bool(b) == [k |-> "bool", v |-> b]
Date(d) == [k |-> "date", v |-> d]

NoTask == [k |-> "none"]
NoId == -1

IsStr(v) == v.k = "str"

StrLen(s) == s.lead + s.body + s.trail

Strip(s) == Str(0, s.body, 0)

(* Python truthiness of an Optional[str]: None and "" are falsy *)
Truthy(v) == IsStr(v) /\ StrLen(v) > 0

(* Mutant of IsBlank: only the empty string counts, whitespace is not stripped *)
IsBlank_EmptyOnly(v) == ~Truthy(v)

(* The test  not title or not title.strip()  *)
IsBlank(v) == ~Truthy(v) \/ ~Truthy(Strip(v))

Fields == <<"title", "description", "completed", "end_date">>

----------------------------------------------------------------------------
(* Request schemas: app/schemas/todo.py (pydantic).  Field constraints     *)
(* (min_length, max_length, type) are checked on the raw value; the        *)
(* field_validator runs after them.  A rejected body never reaches the     *)
(* service: FastAPI answers 422.                                           *)

Rejected == [ok |-> FALSE]
Accepted(v) == [ok |-> TRUE, v |-> v]

(* Mutant of TodoBase_title: the length limit is off by one *)
TodoBase_title_OffByOne(v) ==
    IF ~IsStr(v) THEN Rejected
    ELSE IF StrLen(v) < 1 \/ StrLen(v) >= TITLE_MAX_LENGTH THEN Rejected
    ELSE IF Truthy(v) /\ ~Truthy(Strip(v)) THEN Rejected
    ELSE Accepted(IF Truthy(v) THEN Strip(v) ELSE v)

(* Mutant of TodoBase_title: max_length is missing from the field *)
TodoBase_title_NoMaxLength(v) ==
    IF ~IsStr(v) THEN Rejected
    ELSE IF StrLen(v) < 1 THEN Rejected
    ELSE IF Truthy(v) /\ ~Truthy(Strip(v)) THEN Rejected
    ELSE Accepted(IF Truthy(v) THEN Strip(v) ELSE v)

(* TodoBase.title: str, required, min_length=1, max_length=200, then validate_title *)
TodoBase_title(v) ==
    IF ~IsStr(v) THEN Rejected
    ELSE IF StrLen(v) < 1 \/ StrLen(v) > TITLE_MAX_LENGTH THEN Rejected
    ELSE IF Truthy(v) /\ ~Truthy(Strip(v)) THEN Rejected
    ELSE Accepted(IF Truthy(v) THEN Strip(v) ELSE v)

(* TodoBase.description: Optional[str], max_length=1000, then validate_description *)
TodoBase_description(v) ==
    IF v = Unset \/ v = Null THEN Accepted(Null)
    ELSE IF ~IsStr(v) THEN Rejected
    ELSE IF StrLen(v) > DESCRIPTION_MAX_LENGTH THEN Rejected
    ELSE Accepted(IF Truthy(Strip(v)) THEN Strip(v) ELSE Null)

(* TodoBase.completed: bool, default False *)
TodoBase_completed(v) ==
    IF v = Unset THEN Accepted(Bool(FALSE))
    ELSE IF v.k = "bool" THEN Accepted(v)
    ELSE Rejected

(* TodoBase.end_date: Optional[datetime], default None *)
TodoBase_end_date(v) ==
    IF v = Unset \/ v = Null THEN Accepted(Null)
    ELSE IF v.k = "date" THEN Accepted(v)
    ELSE Rejected

(* the TodoCreate request body *)
TodoCreate(req) ==
    LET t == TodoBase_title(req.title)
        d == TodoBase_description(req.description)
        c == TodoBase_completed(req.completed)
        e == TodoBase_end_date(req.end_date)
    IN  IF t.ok /\ d.ok /\ c.ok /\ e.ok
        THEN [ok |-> TRUE, title |-> t.v, description |-> d.v,
              completed |-> c.v, end_date |-> e.v]
        ELSE Rejected

(* TodoUpdate.title: Optional[str], min_length=1, max_length=200, no validator *)
TodoUpdate_title(v) ==
    IF v = Unset \/ v = Null THEN Accepted(v)
    ELSE IF ~IsStr(v) THEN Rejected
    ELSE IF StrLen(v) < 1 \/ StrLen(v) > TITLE_MAX_LENGTH THEN Rejected
    ELSE Accepted(v)

(* TodoUpdate.description: Optional[str], max_length=1000, no validator *)
TodoUpdate_description(v) ==
    IF v = Unset \/ v = Null THEN Accepted(v)
    ELSE IF ~IsStr(v) THEN Rejected
    ELSE IF StrLen(v) > DESCRIPTION_MAX_LENGTH THEN Rejected
    ELSE Accepted(v)

(* TodoUpdate.completed: Optional[bool] *)
TodoUpdate_completed(v) ==
    IF v = Unset \/ v = Null \/ v.k = "bool" THEN Accepted(v) ELSE Rejected

(* TodoUpdate.end_date: Optional[datetime] *)
TodoUpdate_end_date(v) ==
    IF v = Unset \/ v = Null \/ v.k = "date" THEN Accepted(v) ELSE Rejected

(* the TodoUpdate request body: the fields that were supplied stay marked as set *)
TodoUpdate(req) ==
    LET t == TodoUpdate_title(req.title)
        d == TodoUpdate_description(req.description)
        c == TodoUpdate_completed(req.completed)
        e == TodoUpdate_end_date(req.end_date)
    IN  IF t.ok /\ d.ok /\ c.ok /\ e.ok
        THEN [ok |-> TRUE, title |-> t.v, description |-> d.v,
              completed |-> c.v, end_date |-> e.v]
        ELSE Rejected

(* Reading an attribute of a TodoUpdate: an unset field reads as its default None *)
Attr(data, f) == IF data[f] = Unset THEN Null ELSE data[f]

(* Mutant of model_dump: exclude_unset is missing, every field is dumped *)
model_dump_All(data) == Fields

(* Mutant of model_dump: exclude_none in place of exclude_unset *)
model_dump_ExcludeNone(data) == SelectSeq(Fields, LAMBDA f : data[f] /= Unset /\ data[f] /= Null)

(* todo_data.model_dump(exclude_unset=True): the supplied fields, in declaration order *)
model_dump(data) == SelectSeq(Fields, LAMBDA f : data[f] /= Unset)

(* Mutant of DateRangeInverted: equal bounds count as inverted *)
DateRangeInverted_OrEqual(from, to) == from /= Null /\ to /= Null /\ from.v >= to.v

(* The test  end_date_from and end_date_to and end_date_from > end_date_to *)
(* of TodoSearchParams.validate_date_range, repeated in the service        *)
DateRangeInverted(from, to) == from /= Null /\ to /= Null /\ from.v > to.v

(* The constraints on skip (ge=0) and limit (ge=1, le=1000), declared on   *)
(* the fields of TodoSearchParams and on the Query parameters of the router *)
PaginationFields(skip, limit) == skip >= 0 /\ limit >= 1 /\ limit <= 1000

(* TodoSearchParams: field constraints, then the model validator *)
TodoSearchParams(q) ==
    IF ~PaginationFields(q.skip, q.limit) THEN Rejected
    ELSE IF DateRangeInverted(q.end_date_from, q.end_date_to) THEN Rejected
    ELSE Accepted(q)

----------------------------------------------------------------------------
(* ORM model: app/models/todo.py.  The @validates hooks run on every       *)
(* attribute assignment, in the constructor and in setattr.                *)

Raised == [ok |-> FALSE]

(* Todo.validate_title *)
validate_title(title) ==
    IF IsBlank(title) THEN Raised
    ELSE IF StrLen(title) > TITLE_MAX_LENGTH THEN Raised
    ELSE Accepted(Strip(title))

(* Mutant of validate_description: the stripped text is returned even when empty *)
validate_description_KeepsEmpty(description) ==
    IF description /= Null
    THEN IF StrLen(description) > DESCRIPTION_MAX_LENGTH THEN Raised
         ELSE Accepted(Strip(description))
    ELSE Accepted(description)

(* Todo.validate_description *)
validate_description(description) ==
    IF description /= Null
    THEN IF StrLen(description) > DESCRIPTION_MAX_LENGTH THEN Raised
         ELSE Accepted(IF Truthy(Strip(description)) THEN Strip(description) ELSE Null)
    ELSE Accepted(description)

(* setattr(db_todo, field, value) on a pending row; st.err records a raised ValueError *)
setattr(st, field, value) ==
    IF st.err THEN st
    ELSE IF field = "title"
         THEN LET r == validate_title(value)
              IN  IF r.ok THEN [st EXCEPT !.row.title = r.v] ELSE [st EXCEPT !.err = TRUE]
    ELSE IF field = "description"
         THEN LET r == validate_description(value)
              IN  IF r.ok THEN [st EXCEPT !.row.description = r.v] ELSE [st EXCEPT !.err = TRUE]
    ELSE IF field = "completed" THEN [st EXCEPT !.row.completed = value]
    ELSE [st EXCEPT !.row.end_date = value]

(* nullable=False columns: title, completed.  A flush that writes NULL into one raises IntegrityError *)
NotNullViolated(row) == row.title = Null \/ row.completed = Null

----------------------------------------------------------------------------
(* Service validation: app/services/todo.py.  Each returns the message of  *)
(* the TodoValidationError it raises, or "" when it raises nothing.        *)

MsgTitleEmpty == "Title cannot be empty or whitespace only"
MsgTitleLong == "Title cannot exceed 200 characters"
MsgDescLong == "Description cannot exceed 1000 characters"
MsgNoField == "At least one field must be provided for update"
MsgBadId == "Todo ID must be a positive integer"
MsgSchema == "request_validation_error"

(* TodoService._validate_todo_create *)
_validate_todo_create(todo_data) ==
    IF IsBlank(todo_data.title) THEN MsgTitleEmpty
    ELSE IF StrLen(Strip(todo_data.title)) > 200 THEN MsgTitleLong
    ELSE IF Truthy(todo_data.description) /\ StrLen(todo_data.description) > 1000 THEN MsgDescLong
    ELSE ""

(* Mutant of _validate_todo_update: the check for an empty update is missing *)
_validate_todo_update_NoEmptyCheck(todo_data) ==
    IF Attr(todo_data, "title") /= Null /\ IsBlank(todo_data.title)
         THEN MsgTitleEmpty
    ELSE IF Attr(todo_data, "title") /= Null /\ StrLen(Strip(todo_data.title)) > 200
         THEN MsgTitleLong
    ELSE IF Attr(todo_data, "description") /= Null /\ StrLen(todo_data.description) > 1000
         THEN MsgDescLong
    ELSE ""

(* TodoService._validate_todo_update *)
_validate_todo_update(todo_data) ==
    IF model_dump(todo_data) = <<>> THEN MsgNoField
    ELSE IF Attr(todo_data, "title") /= Null /\ IsBlank(todo_data.title)
         THEN MsgTitleEmpty
    ELSE IF Attr(todo_data, "title") /= Null /\ StrLen(Strip(todo_data.title)) > 200
         THEN MsgTitleLong
    ELSE IF Attr(todo_data, "description") /= Null /\ StrLen(todo_data.description) > 1000
         THEN MsgDescLong
    ELSE ""

(* Mutant of _validate_todo_id: zero passes *)
_validate_todo_id_ZeroAllowed(todo_id) == IF todo_id < 0 THEN MsgBadId ELSE ""

(* TodoService._validate_todo_id *)
_validate_todo_id(todo_id) == IF todo_id <= 0 THEN MsgBadId ELSE ""

MsgSkip == "Skip parameter must be a non-negative integer"
MsgLimitPositive == "Limit parameter must be a positive integer"
MsgLimitMax == "Limit parameter cannot exceed 1000"
MsgDateRange == "end_date_from must be before or equal to end_date_to"

(* Mutant of _validate_pagination_params: the upper limit is not checked *)
_validate_pagination_params_NoMax(skip, limit) ==
    IF skip < 0 THEN MsgSkip
    ELSE IF limit <= 0 THEN MsgLimitPositive
    ELSE ""

(* TodoService._validate_pagination_params *)
_validate_pagination_params(skip, limit) ==
    IF skip < 0 THEN MsgSkip
    ELSE IF limit <= 0 THEN MsgLimitPositive
    ELSE IF limit > 1000 THEN MsgLimitMax
    ELSE ""

(* TodoService._validate_search_params *)
_validate_search_params(search_params) ==
    LET v == _validate_pagination_params(search_params.skip, search_params.limit)
    IN  IF v /= "" THEN v
        ELSE IF DateRangeInverted(search_params.end_date_from, search_params.end_date_to)
             THEN MsgDateRange
        ELSE ""

----------------------------------------------------------------------------
(* Repository: app/repositories/todo.py.  fault is the statement at which  *)
(* the database fails, if any: "query" (a SELECT), "commit" (the flush and *)
(* commit, which leaves nothing written) or "refresh" (the SELECT of       *)
(* db.refresh, issued after the commit has succeeded).  exc is the         *)
(* exception that leaves the method: "none", "ValueError" (raised by a     *)
(* @validates hook, which the repository does not catch) or                *)
(* "SQLAlchemyError" (caught, rolled back, re-raised).  st is the          *)
(* committed content of the table afterwards, dirty whether the session is *)
(* left with a pending change that was neither committed nor rolled back.  *)

NoRow == [k |-> "none"]

(* TodoRepository.create *)
repo_create(st, nid, todo_data, t, fault) ==
    LET blank == [row |-> [id |-> nid, title |-> Null, description |-> Null,
                           completed |-> Null, end_date |-> Null,
                           created_at |-> t, updated_at |-> t],
                  err |-> FALSE]
        s1 == setattr(blank, "title", todo_data.title)
        s2 == setattr(s1, "description", todo_data.description)
        s3 == setattr(s2, "completed", todo_data.completed)
        s4 == setattr(s3, "end_date", todo_data.end_date)
    IN  IF s4.err THEN [exc |-> "ValueError", row |-> NoRow, st |-> st, dirty |-> FALSE]
        ELSE IF fault = "commit" \/ NotNullViolated(s4.row)
             THEN [exc |-> "SQLAlchemyError", row |-> NoRow, st |-> st, dirty |-> FALSE]
        ELSE IF fault = "refresh"
             THEN [exc |-> "SQLAlchemyError", row |-> NoRow,
                   st |-> [i \in DOMAIN st \cup {nid} |-> IF i = nid THEN s4.row ELSE st[i]],
                   dirty |-> FALSE]
        ELSE [exc |-> "none", row |-> s4.row,
              st |-> [i \in DOMAIN st \cup {nid} |-> IF i = nid THEN s4.row ELSE st[i]],
              dirty |-> FALSE]

(* Mutant of repo_get_by_id: the filter on the id is missing, first() returns the first row *)
repo_get_by_id_NoFilter(st, todo_id, fault) ==
    IF fault = "query" THEN [exc |-> "SQLAlchemyError", row |-> NoRow]
    ELSE IF DOMAIN st /= {}
         THEN [exc |-> "none",
               row |-> st[CHOOSE i \in DOMAIN st : \A j \in DOMAIN st : i <= j]]
    ELSE [exc |-> "none", row |-> NoRow]

(* TodoRepository.get_by_id *)
repo_get_by_id(st, todo_id, fault) ==
    IF fault = "query" THEN [exc |-> "SQLAlchemyError", row |-> NoRow]
    ELSE IF todo_id \in DOMAIN st THEN [exc |-> "none", row |-> st[todo_id]]
    ELSE [exc |-> "none", row |-> NoRow]

(* The loop  for field, value in update_data.items(): setattr(db_todo, field, value) *)
RECURSIVE apply_update(_, _, _)
apply_update(pend, todo_data, fs) ==
    IF fs = <<>> THEN pend
    ELSE apply_update(setattr(pend, Head(fs), Attr(todo_data, Head(fs))), todo_data, Tail(fs))

(* The unit of work emits an UPDATE only if some column has a net change *)
Modified(old, new) ==
    \E f \in {"title", "description", "completed", "end_date"} : old[f] /= new[f]

(* Mutant of repo_update: the column has no onupdate, updated_at is never refreshed *)
repo_update_NoOnUpdate(st, todo_id, todo_data, t, fault) ==
    IF todo_id \notin DOMAIN st THEN [exc |-> "none", row |-> NoRow, st |-> st, dirty |-> FALSE]
    ELSE
    LET pend == apply_update([row |-> st[todo_id], err |-> FALSE],
                             todo_data, model_dump(todo_data))
    IN  IF pend.err THEN [exc |-> "ValueError", row |-> NoRow, st |-> st, dirty |-> Modified(st[todo_id], pend.row)]
        ELSE IF fault = "commit" \/ NotNullViolated(pend.row)
             THEN [exc |-> "SQLAlchemyError", row |-> NoRow, st |-> st, dirty |-> FALSE]
        ELSE [exc |-> "none", row |-> pend.row, st |-> [st EXCEPT ![todo_id] = pend.row],
              dirty |-> FALSE]

(* Mutant of repo_update: updated_at is reset to the epoch in place of now() *)
repo_update_Epoch(st, todo_id, todo_data, t, fault) ==
    IF todo_id \notin DOMAIN st THEN [exc |-> "none", row |-> NoRow, st |-> st, dirty |-> FALSE]
    ELSE
    LET pend == apply_update([row |-> st[todo_id], err |-> FALSE],
                             todo_data, model_dump(todo_data))
        new == IF Modified(st[todo_id], pend.row)
               THEN [pend.row EXCEPT !.updated_at = 0]
               ELSE pend.row
    IN  IF pend.err THEN [exc |-> "ValueError", row |-> NoRow, st |-> st, dirty |-> Modified(st[todo_id], pend.row)]
        ELSE IF fault = "commit" \/ NotNullViolated(pend.row)
             THEN [exc |-> "SQLAlchemyError", row |-> NoRow, st |-> st, dirty |-> FALSE]
        ELSE [exc |-> "none", row |-> new, st |-> [st EXCEPT ![todo_id] = new],
              dirty |-> FALSE]

(* TodoRepository.update *)
repo_update(st, todo_id, todo_data, t, fault) ==
    IF todo_id \notin DOMAIN st THEN [exc |-> "none", row |-> NoRow, st |-> st, dirty |-> FALSE]
    ELSE
    LET pend == apply_update([row |-> st[todo_id], err |-> FALSE],
                             todo_data, model_dump(todo_data))
        new == IF Modified(st[todo_id], pend.row)
               THEN [pend.row EXCEPT !.updated_at = t]
               ELSE pend.row
    IN  IF pend.err THEN [exc |-> "ValueError", row |-> NoRow, st |-> st, dirty |-> Modified(st[todo_id], pend.row)]
        ELSE IF fault = "commit" \/ NotNullViolated(pend.row)
             THEN [exc |-> "SQLAlchemyError", row |-> NoRow, st |-> st, dirty |-> FALSE]
        ELSE IF fault = "refresh"
             THEN [exc |-> "SQLAlchemyError", row |-> NoRow,
                   st |-> [st EXCEPT ![todo_id] = new], dirty |-> FALSE]
        ELSE [exc |-> "none", row |-> new, st |-> [st EXCEPT ![todo_id] = new],
              dirty |-> FALSE]

(* Mutant of repo_delete: the deletion is not committed *)
repo_delete_NoCommit(st, todo_id, fault) ==
    IF todo_id \notin DOMAIN st THEN [exc |-> "none", ret |-> FALSE, st |-> st, dirty |-> FALSE]
    ELSE IF fault = "commit" THEN [exc |-> "SQLAlchemyError", ret |-> FALSE, st |-> st, dirty |-> FALSE]
    ELSE [exc |-> "none", ret |-> TRUE, st |-> st, dirty |-> FALSE]

(* TodoRepository.delete *)
repo_delete(st, todo_id, fault) ==
    IF todo_id \notin DOMAIN st THEN [exc |-> "none", ret |-> FALSE, st |-> st, dirty |-> FALSE]
    ELSE IF fault = "commit" THEN [exc |-> "SQLAlchemyError", ret |-> FALSE, st |-> st, dirty |-> FALSE]
    ELSE [exc |-> "none", ret |-> TRUE,
          st |-> [i \in DOMAIN st \ {todo_id} |-> st[i]], dirty |-> FALSE]

(* .order_by(Todo.created_at.desc()): the orders in which the engine may   *)
(* emit the rows.  created_at is the only sort key, so rows with the same  *)
(* created_at may come in any order, and the order may differ from one     *)
(* query to the next.                                                      *)
order_by_created_at_desc(st) ==
    { o \in [1 .. Cardinality(DOMAIN st) -> DOMAIN st] :
         /\ \A i, j \in DOMAIN o : i /= j => o[i] /= o[j]
         /\ \A i, j \in DOMAIN o : i < j => st[o[i]].created_at >= st[o[j]].created_at }

(* .offset(skip).limit(limit) *)
offset_limit(seq, skip, limit) ==
    SubSeq(seq, skip + 1, IF skip + limit < Len(seq) THEN skip + limit ELSE Len(seq))

(* TodoRepository.get_all; order is the order in which the engine emits the rows *)
repo_get_all(st, skip, limit, order, fault) ==
    IF fault = "query" THEN [exc |-> "SQLAlchemyError", rows |-> << >>]
    ELSE LET page == offset_limit(order, skip, limit)
         IN  [exc |-> "none", rows |-> [i \in DOMAIN page |-> st[page[i]]]]

(* Mutant of filter: the supplied filters are combined with OR *)
filter_Any(row, search_params) ==
    \/ search_params.completed /= Null /\ row.completed = search_params.completed
    \/ search_params.end_date_from /= Null /\
           (row.end_date /= Null /\ row.end_date.v >= search_params.end_date_from.v)
    \/ search_params.end_date_to /= Null /\
           (row.end_date /= Null /\ row.end_date.v <= search_params.end_date_to.v)

(* Mutant of filter: the deadline bounds are exclusive *)
filter_ExclusiveBounds(row, search_params) ==
    /\ search_params.completed /= Null => row.completed = search_params.completed
    /\ search_params.end_date_from /= Null =>
           (row.end_date /= Null /\ row.end_date.v > search_params.end_date_from.v)
    /\ search_params.end_date_to /= Null =>
           (row.end_date /= Null /\ row.end_date.v < search_params.end_date_to.v)

(* The filters of TodoRepository.search_todos.  A comparison with a NULL   *)
(* end_date is not true in SQL, so the row is filtered out.                *)
filter(row, search_params) ==
    /\ search_params.completed /= Null => row.completed = search_params.completed
    /\ search_params.end_date_from /= Null =>
           (row.end_date /= Null /\ row.end_date.v >= search_params.end_date_from.v)
    /\ search_params.end_date_to /= Null =>
           (row.end_date /= Null /\ row.end_date.v <= search_params.end_date_to.v)

(* TodoRepository.search_todos *)
repo_search_todos(st, search_params, order, fault) ==
    IF fault = "query" THEN [exc |-> "SQLAlchemyError", rows |-> << >>]
    ELSE LET matching == SelectSeq(order, LAMBDA i : filter(st[i], search_params))
             page == offset_limit(matching, search_params.skip, search_params.limit)
         IN  [exc |-> "none", rows |-> [i \in DOMAIN page |-> st[page[i]]]]

(* TodoRepository.get_by_completion_status *)
repo_get_by_completion_status(st, completed, order, fault) ==
    IF fault = "query" THEN [exc |-> "SQLAlchemyError", rows |-> << >>]
    ELSE LET matching == SelectSeq(order, LAMBDA i : st[i].completed = completed)
         IN  [exc |-> "none", rows |-> [i \in DOMAIN matching |-> st[matching[i]]]]

(* TodoRepository.count_all *)
repo_count_all(st) == Cardinality(DOMAIN st)

(* TodoRepository.count_by_completion_status *)
repo_count_by_completion_status(st, completed) ==
    Cardinality({ i \in DOMAIN st : st[i].completed = completed })

----------------------------------------------------------------------------
(* Service operations: app/services/todo.py.  An outcome is the kind of    *)
(* the call's end ("ok", "validation" = TodoValidationError, "notfound" =  *)
(* TodoNotFoundError, "database" = TodoDatabaseError), its message, the    *)
(* returned TodoResponse and the table content afterwards.  todo_id is the *)
(* id a TodoNotFoundError carries, items the list a list or search call    *)
(* returns, queried whether the call invoked a repository method,          *)
(* original_error the exception a TodoDatabaseError carries, dirty whether *)
(* the session is left with a pending change, statistics the dictionary    *)
(* get_todo_statistics returns.                                            *)

NoStatistics == [k |-> "none"]

Outcome(kind, msg, task, ret, st) ==
    [kind |-> kind, msg |-> msg, task |-> task, ret |-> ret, st |-> st,
     todo_id |-> NoId, items |-> << >>, queried |-> FALSE,
     original_error |-> "none", dirty |-> FALSE, statistics |-> NoStatistics]

(* Mutant of NotFound: the exception does not carry the requested id *)
NotFound_NoId(todo_id, st) ==
    [Outcome("notfound", "Todo item not found", NoTask, FALSE, st) EXCEPT !.queried = TRUE]

(* raise TodoNotFoundError(todo_id) *)
NotFound(todo_id, st) ==
    [Outcome("notfound", "Todo item with id " \o ToString(todo_id) \o " not found",
             NoTask, FALSE, st)
        EXCEPT !.todo_id = todo_id, !.queried = TRUE]

(* raise TodoDatabaseError(message, e) *)
DatabaseError(msg, e, dirty, st) ==
    [Outcome("database", msg, NoTask, FALSE, st)
        EXCEPT !.original_error = e, !.dirty = dirty, !.queried = TRUE]

(* A normal return after the repository was called *)
Returned(task, ret, st) ==
    [Outcome("ok", "", task, ret, st) EXCEPT !.queried = TRUE]

(* The exception that reaches  except Exception : one that left the         *)
(* repository, or the pydantic ValidationError of model_validate           *)
Unexpected(exc) == IF exc /= "none" THEN exc ELSE "ValidationError"

(* TodoResponse.model_validate(db_todo): the TodoBase validators run on the row *)
model_validate(row) ==
    IF row = NoRow THEN Rejected
    ELSE LET t == TodoBase_title(row.title)
             d == TodoBase_description(row.description)
             c == TodoBase_completed(row.completed)
             e == TodoBase_end_date(row.end_date)
         IN  IF t.ok /\ d.ok /\ c.ok /\ e.ok
             THEN Accepted([id |-> row.id, title |-> t.v, description |-> d.v,
                            completed |-> c.v, end_date |-> e.v,
                            created_at |-> row.created_at,
                            updated_at |-> row.updated_at])
             ELSE Rejected

(* TodoService.create_todo *)
create_todo(st, nid, todo_data, t, fault) ==
    LET v == _validate_todo_create(todo_data)
        r == repo_create(st, nid, todo_data, t, fault)
        resp == model_validate(r.row)
    IN  IF v /= "" THEN Outcome("validation", v, NoTask, FALSE, st)
        ELSE IF r.exc = "SQLAlchemyError"
             THEN DatabaseError("Failed to create todo item", r.exc, r.dirty, r.st)
        ELSE IF r.exc /= "none" \/ ~resp.ok
             THEN DatabaseError("Unexpected error occurred while creating todo item",
                                Unexpected(r.exc), r.dirty, r.st)
        ELSE Returned(resp.v, TRUE, r.st)

(* TodoService.get_todo_by_id *)
get_todo_by_id(st, todo_id, fault) ==
    LET v == _validate_todo_id(todo_id)
        r == repo_get_by_id(st, todo_id, fault)
        resp == model_validate(r.row)
    IN  IF v /= "" THEN Outcome("validation", v, NoTask, FALSE, st)
        ELSE IF r.exc = "SQLAlchemyError"
             THEN DatabaseError("Failed to retrieve todo item " \o ToString(todo_id), r.exc, FALSE, st)
        ELSE IF r.row = NoRow
             THEN NotFound(todo_id, st)
        ELSE IF ~resp.ok
             THEN DatabaseError("Unexpected error occurred while retrieving todo item " \o ToString(todo_id),
                                Unexpected(r.exc), FALSE, st)
        ELSE Returned(resp.v, TRUE, st)

(* TodoService.update_todo *)
update_todo(st, todo_id, todo_data, t, fault) ==
    LET v1 == _validate_todo_id(todo_id)
        v2 == _validate_todo_update(todo_data)
        existing == repo_get_by_id(st, todo_id, fault)
        r == repo_update(st, todo_id, todo_data, t, fault)
        resp == model_validate(r.row)
    IN  IF v1 /= "" THEN Outcome("validation", v1, NoTask, FALSE, st)
        ELSE IF v2 /= "" THEN Outcome("validation", v2, NoTask, FALSE, st)
        ELSE IF existing.exc = "SQLAlchemyError"
             THEN DatabaseError("Failed to update todo item " \o ToString(todo_id), existing.exc, FALSE, st)
        ELSE IF existing.row = NoRow
             THEN NotFound(todo_id, st)
        ELSE IF r.exc = "SQLAlchemyError"
             THEN DatabaseError("Failed to update todo item " \o ToString(todo_id), r.exc, r.dirty, r.st)
        ELSE IF r.exc /= "none" \/ ~resp.ok
             THEN DatabaseError("Unexpected error occurred while updating todo item " \o ToString(todo_id),
                                Unexpected(r.exc), r.dirty, r.st)
        ELSE Returned(resp.v, TRUE, r.st)

(* TodoService.delete_todo *)
delete_todo(st, todo_id, fault) ==
    LET v == _validate_todo_id(todo_id)
        existing == repo_get_by_id(st, todo_id, fault)
        r == repo_delete(st, todo_id, fault)
    IN  IF v /= "" THEN Outcome("validation", v, NoTask, FALSE, st)
        ELSE IF existing.exc = "SQLAlchemyError"
             THEN DatabaseError("Failed to delete todo item " \o ToString(todo_id), existing.exc, FALSE, st)
        ELSE IF existing.row = NoRow
             THEN NotFound(todo_id, st)
        ELSE IF r.exc = "SQLAlchemyError"
             THEN DatabaseError("Failed to delete todo item " \o ToString(todo_id), r.exc, r.dirty, r.st)
        ELSE Returned(NoTask, r.ret, r.st)

(* [TodoResponse.model_validate(todo) for todo in db_todos] *)
model_validate_all(rows) ==
    IF \A i \in DOMAIN rows : model_validate(rows[i]).ok
    THEN Accepted([i \in DOMAIN rows |-> model_validate(rows[i]).v])
    ELSE Rejected

(* Mutant of Listed: a failed query is answered with an empty list *)
Listed_Swallowed(r, failed, unexpected, st) ==
    LET resp == model_validate_all(r.rows)
    IN  IF ~resp.ok
        THEN DatabaseError(unexpected, Unexpected(r.exc), FALSE, st)
        ELSE [Returned(NoTask, TRUE, st) EXCEPT !.items = resp.v]

(* The end of a list or search call that reached the repository *)
Listed(r, failed, unexpected, st) ==
    LET resp == model_validate_all(r.rows)
    IN  IF r.exc = "SQLAlchemyError"
        THEN DatabaseError(failed, r.exc, FALSE, st)
        ELSE IF ~resp.ok
        THEN DatabaseError(unexpected, Unexpected(r.exc), FALSE, st)
        ELSE [Returned(NoTask, TRUE, st) EXCEPT !.items = resp.v]

(* TodoService.get_all_todos *)
get_all_todos(st, skip, limit, order, fault) ==
    LET v == _validate_pagination_params(skip, limit)
    IN  IF v /= "" THEN Outcome("validation", v, NoTask, FALSE, st)
        ELSE Listed(repo_get_all(st, skip, limit, order, fault),
                    "Failed to retrieve todo items",
                    "Unexpected error occurred while retrieving todo items", st)

(* TodoService.search_todos *)
search_todos(st, search_params, order, fault) ==
    LET v == _validate_search_params(search_params)
    IN  IF v /= "" THEN Outcome("validation", v, NoTask, FALSE, st)
        ELSE Listed(repo_search_todos(st, search_params, order, fault),
                    "Failed to search todo items",
                    "Unexpected error occurred while searching todo items", st)

(* TodoService.get_todos_by_status *)
get_todos_by_status(st, completed, order, fault) ==
    Listed(repo_get_by_completion_status(st, completed, order, fault),
           "Failed to retrieve todo items by status",
           "Unexpected error occurred while retrieving todo items by status", st)

(* round(completed_count / total_count * 100, 2), in hundredths of a percent *)
completion_rate(completed_count, total_count) ==
    IF total_count > 0
    THEN (2 * completed_count * 10000 + total_count) \div (2 * total_count)
    ELSE 0

(* The dictionary that get_todo_statistics builds from its three counts *)
statistics(total_count, completed_count, pending_count) ==
    [total |-> total_count, completed |-> completed_count, pending |-> pending_count,
     completion_rate |-> completion_rate(completed_count, total_count)]

(* TodoService.get_todo_statistics, the three counts taken on the same     *)
(* content of the table                                                    *)
get_todo_statistics(st, fault) ==
    IF fault = "query"
    THEN DatabaseError("Failed to retrieve todo statistics", "SQLAlchemyError", FALSE, st)
    ELSE [Returned(NoTask, TRUE, st)
             EXCEPT !.statistics = statistics(repo_count_all(st),
                                              repo_count_by_completion_status(st, Bool(TRUE)),
                                              repo_count_by_completion_status(st, Bool(FALSE)))]

----------------------------------------------------------------------------
(* Router: app/routers/todo.py.  A body the schema rejects is answered 422 *)
(* by FastAPI before the endpoint runs.                                    *)

SchemaRejected(st) == Outcome("validation", MsgSchema, NoTask, FALSE, st)

StatusOf(op, kind) ==
    IF kind = "validation" THEN HTTP_422_UNPROCESSABLE_ENTITY
    ELSE IF kind = "notfound" THEN HTTP_404_NOT_FOUND
    ELSE IF kind = "database" THEN HTTP_500_INTERNAL_SERVER_ERROR
    ELSE IF op = "create" THEN HTTP_201_CREATED
    ELSE IF op = "delete" THEN HTTP_204_NO_CONTENT
    ELSE HTTP_200_OK

(* The operations that have an endpoint *)
Endpoints == {"create", "get", "update", "delete", "get_todos", "search_todos"}

(* The detail of the HTTPException raised for a TodoDatabaseError *)
Detail500(op) ==
    IF op = "create" THEN "Failed to create todo item"
    ELSE IF op = "get" THEN "Failed to retrieve todo item"
    ELSE IF op = "update" THEN "Failed to update todo item"
    ELSE IF op = "delete" THEN "Failed to delete todo item"
    ELSE IF op = "get_todos" THEN "Failed to retrieve todo items"
    ELSE "Failed to search todo items"

(* Mutant of Detail: the detail of a 500 is the message of the exception *)
Detail_Message(op, id, o) ==
    IF op \notin Endpoints THEN o.msg
    ELSE IF o.kind = "notfound" THEN "Todo item with id " \o ToString(id) \o " not found"
    ELSE o.msg

(* The detail of the response: of the HTTPException an endpoint raises, or *)
(* the message of the exception for a caller of the service                *)
Detail(op, id, o) ==
    IF op \notin Endpoints THEN o.msg
    ELSE IF o.kind = "database" THEN Detail500(op)
    ELSE IF o.kind = "notfound" THEN "Todo item with id " \o ToString(id) \o " not found"
    ELSE o.msg

(* What the client learns, with the request and, in before, the content   *)
(* of the table when the request arrived                                   *)
Response(op, id, req, q, fault, st, o) ==
    [op |-> op, id |-> id, req |-> req, q |-> q, fault |-> fault, kind |-> o.kind,
     msg |-> o.msg, status |-> StatusOf(op, o.kind), task |-> o.task, ret |-> o.ret,
     todo_id |-> o.todo_id, items |-> o.items, queried |-> o.queried,
     original_error |-> o.original_error, dirty |-> o.dirty, statistics |-> o.statistics,
     detail |-> Detail(op, id, o), before |-> st]

(* POST /todos/ *)
route_create(st, nid, req, t, fault) ==
    LET todo_data == TodoCreate(req)
    IN  IF ~todo_data.ok THEN SchemaRejected(st)
        ELSE create_todo(st, nid, todo_data, t, fault)

(* PUT /todos/{todo_id} *)
route_update(st, todo_id, req, t, fault) ==
    LET todo_data == TodoUpdate(req)
    IN  IF ~todo_data.ok THEN SchemaRejected(st)
        ELSE update_todo(st, todo_id, todo_data, t, fault)

(* GET /todos/ *)
route_get_todos(st, skip, limit, order, fault) ==
    IF ~PaginationFields(skip, limit) THEN SchemaRejected(st)
    ELSE get_all_todos(st, skip, limit, order, fault)

(* GET /todos/search *)
route_search_todos(st, q, order, fault) ==
    LET search_params == TodoSearchParams(q)
    IN  IF ~PaginationFields(q.skip, q.limit) THEN SchemaRejected(st)
        ELSE IF ~search_params.ok THEN SchemaRejected(st)
        ELSE search_todos(st, search_params.v, order, fault)

----------------------------------------------------------------------------
(* Inputs *)

NoFields == [title |-> Unset, description |-> Unset, completed |-> Unset, end_date |-> Unset]

TitleInputs ==
    { Str(0, 0, 0), Str(2, 0, 0), Str(1, 1, 1),
      Str(0, TITLE_MAX_LENGTH, 0), Str(0, TITLE_MAX_LENGTH + 1, 0),
      Str(1, TITLE_MAX_LENGTH, 0) }

DescriptionInputs ==
    { Str(0, 0, 0), Str(2, 0, 0), Str(1, 1, 1), Str(0, DESCRIPTION_MAX_LENGTH + 1, 0) }

(* Bodies of POST /todos/: every title with the other fields omitted, and  *)
(* two accepted titles with every description, completed and end_date      *)
CreateRequests ==
    { [NoFields EXCEPT !.title = t] : t \in TitleInputs }
    \cup [title : {Str(1, 1, 1), Str(0, TITLE_MAX_LENGTH, 0)},
          description : {Unset} \cup DescriptionInputs,
          completed : {Unset, Bool(TRUE)},
          end_date : {Unset, Date(1)}]

(* Bodies of PUT /todos/{todo_id}: the empty body, every body with one     *)
(* field, and bodies with several fields, valid and invalid                *)
UpdateRequests ==
    {NoFields}
    \cup { [NoFields EXCEPT !.title = t] : t \in {Null} \cup TitleInputs }
    \cup { [NoFields EXCEPT !.description = d] : d \in {Null} \cup DescriptionInputs }
    \cup { [NoFields EXCEPT !.completed = c] : c \in {Null, Bool(TRUE), Bool(FALSE)} }
    \cup { [NoFields EXCEPT !.end_date = e] : e \in {Null, Date(1)} }
    \cup { [NoFields EXCEPT !.title = Str(1, 1, 1), !.completed = Bool(TRUE)],
           [NoFields EXCEPT !.title = Str(2, 0, 0), !.completed = Bool(TRUE)],
           [NoFields EXCEPT !.description = Str(1, 1, 1), !.end_date = Null],
           [NoFields EXCEPT !.end_date = Date(1), !.completed = Null],
           [title |-> Str(0, TITLE_MAX_LENGTH, 0), description |-> Str(1, 1, 1),
            completed |-> Bool(FALSE), end_date |-> Date(1)] }

IdInputs == -1 .. MaxTodos

(* Query parameters: the defaults of GET /todos/search *)
NoQuery ==
    [completed |-> Null, end_date_from |-> Null, end_date_to |-> Null, skip |-> 0, limit |-> 100]

SkipInputs == {-1, 0, 1}

LimitInputs == {0, 1, 2, 1000, 1001}

BoundInputs == {Null, Date(0), Date(1), Date(2)}

(* skip and limit of GET /todos/ and of get_all_todos *)
ListQueries ==
    { [NoQuery EXCEPT !.skip = s, !.limit = l] : s \in SkipInputs, l \in LimitInputs }

(* Parameters of GET /todos/search: every filter with a limit of 1000 and  *)
(* with pages of one record, and every skip and limit with one filter      *)
SearchQueries ==
    [completed : {Null, Bool(TRUE), Bool(FALSE)}, end_date_from : BoundInputs,
     end_date_to : BoundInputs, skip : {0}, limit : {1, 1000}]
    \cup [completed : {Null, Bool(FALSE)}, end_date_from : {Null}, end_date_to : {Null},
          skip : SkipInputs, limit : LimitInputs]

Requests ==
    [op : {"create"}, id : {NoId}, req : CreateRequests, q : {NoQuery}]
    \cup [op : {"update"}, id : IdInputs, req : UpdateRequests, q : {NoQuery}]
    \cup [op : {"get", "delete"}, id : IdInputs, req : {NoFields}, q : {NoQuery}]
    \cup [op : {"get_todos", "get_all_todos"}, id : {NoId}, req : {NoFields}, q : ListQueries]
    \cup [op : {"search_todos"}, id : {NoId}, req : {NoFields}, q : SearchQueries]
    \cup [op : {"get_todos_by_status"}, id : {NoId}, req : {NoFields},
          q : { [NoQuery EXCEPT !.completed = c] : c \in {Bool(TRUE), Bool(FALSE)} }]
    \cup [op : {"get_todo_statistics"}, id : {NoId}, req : {NoFields}, q : {NoQuery}]

----------------------------------------------------------------------------
(* State machine.  request is the request being served, result the last    *)
(* response the client holds, held the response of the create that the     *)
(* client is reading back.  calls holds the calls that run concurrently,   *)
(* statement by statement, in the second specification below; here every   *)
(* request is served in one step and calls stays empty.                    *)

(* The workers that serve requests at the same time *)
Procs == {1, 2}

(* A worker between two calls; n counts the calls it has made *)
NoCall ==
    [op |-> "none", id |-> NoId, value |-> FALSE, pc |-> "idle", n |-> 0,
     session |-> "none", closes |-> 0, rollbacks |-> 0, used_closed |-> FALSE,
     rolled_back_open |-> FALSE,
     loaded |-> NoRow, txstart |-> -1, kind |-> "none", ret |-> FALSE, status |-> 0,
     task |-> NoTask, raced |-> FALSE, commit_no |-> 0, committed_at |-> -1,
     total |-> -1, completed |-> -1, pending |-> -1, statistics |-> NoStatistics]

NoRequest == [op |-> "none", id |-> NoId, req |-> NoFields, q |-> NoQuery]

NoResult ==
    [op |-> "none", id |-> NoId, req |-> NoFields, q |-> NoQuery, fault |-> "none",
     kind |-> "none",
     msg |-> "", status |-> 0, task |-> NoTask, ret |-> FALSE,
     todo_id |-> NoId, items |-> << >>, queried |-> FALSE,
     original_error |-> "none", dirty |-> FALSE, statistics |-> NoStatistics,
     detail |-> "", before |-> << >>]

Init ==
    /\ store = << >>
    /\ nextId = 1
    /\ now = 0
    /\ request = NoRequest
    /\ result = NoResult
    /\ held = NoResult
    /\ calls = [p \in Procs |-> NoCall]

(* The store's clock advances between requests *)
Tick ==
    /\ request = NoRequest
    /\ result = NoResult
    /\ now < MaxTime
    /\ now' = now + 1
    /\ UNCHANGED <<store, nextId, request, result, held, calls>>

(* A client sends a request *)
Submit ==
    /\ request = NoRequest
    /\ result = NoResult
    /\ \E r \in Requests :
          /\ r.op = "create" => nextId <= MaxTodos
          /\ request' = r
    /\ UNCHANGED <<store, nextId, now, result, held, calls>>

(* The client that has just created a task reads it back by the returned id *)
ReadBack ==
    /\ request = NoRequest
    /\ result.op = "create"
    /\ result.kind = "ok"
    /\ request' = [op |-> "get", id |-> result.task.id, req |-> NoFields, q |-> NoQuery]
    /\ held' = result
    /\ UNCHANGED <<store, nextId, now, result, calls>>

(* Mutant of CreateTodo: the sequence of ids does not advance *)
CreateTodo_NoIncrement ==
    /\ request.op = "create"
    /\ \E fault \in {"none", "commit"} :
          LET o == route_create(store, nextId, request.req, now, fault)
          IN  /\ store' = o.st
              /\ nextId' = nextId
              /\ result' = Response("create", request.id, request.req, request.q, fault, store, o)
    /\ request' = NoRequest
    /\ UNCHANGED <<now, held, calls>>

(* POST /todos/ *)
CreateTodo ==
    /\ request.op = "create"
    /\ \E fault \in {"none", "commit", "refresh"} :
          LET o == route_create(store, nextId, request.req, now, fault)
          IN  /\ store' = o.st
              /\ nextId' = IF nextId \in DOMAIN o.st THEN nextId + 1 ELSE nextId
              /\ result' = Response("create", request.id, request.req, request.q, fault, store, o)
    /\ request' = NoRequest
    /\ UNCHANGED <<now, held, calls>>

GetTodoById ==
    /\ request.op = "get"
    /\ \E fault \in {"none", "query"} :
          LET o == get_todo_by_id(store, request.id, fault)
          IN  /\ store' = o.st
              /\ result' = Response("get", request.id, request.req, request.q, fault, store, o)
    /\ request' = NoRequest
    /\ UNCHANGED <<nextId, now, held, calls>>

UpdateTodo ==
    /\ request.op = "update"
    /\ \E fault \in {"none", "query", "commit", "refresh"} :
          LET o == route_update(store, request.id, request.req, now, fault)
          IN  /\ store' = o.st
              /\ result' = Response("update", request.id, request.req, request.q, fault, store, o)
    /\ request' = NoRequest
    /\ UNCHANGED <<nextId, now, held, calls>>

DeleteTodo ==
    /\ request.op = "delete"
    /\ \E fault \in {"none", "query", "commit"} :
          LET o == delete_todo(store, request.id, fault)
          IN  /\ store' = o.st
              /\ result' = Response("delete", request.id, request.req, request.q, fault, store, o)
    /\ request' = NoRequest
    /\ UNCHANGED <<nextId, now, held, calls>>

(* GET /todos/ *)
GetTodos ==
    /\ request.op = "get_todos"
    /\ \E fault \in {"none", "query"}, order \in order_by_created_at_desc(store) :
          LET o == route_get_todos(store, request.q.skip, request.q.limit, order, fault)
          IN  /\ store' = o.st
              /\ result' = Response("get_todos", request.id, request.req, request.q,
                                    fault, store, o)
    /\ request' = NoRequest
    /\ UNCHANGED <<nextId, now, held, calls>>

(* A caller of the service, as the unit tests are: TodoService.get_all_todos *)
GetAllTodos ==
    /\ request.op = "get_all_todos"
    /\ \E fault \in {"none", "query"}, order \in order_by_created_at_desc(store) :
          LET o == get_all_todos(store, request.q.skip, request.q.limit, order, fault)
          IN  /\ store' = o.st
              /\ result' = Response("get_all_todos", request.id, request.req, request.q,
                                    fault, store, o)
    /\ request' = NoRequest
    /\ UNCHANGED <<nextId, now, held, calls>>

(* GET /todos/search *)
SearchTodos ==
    /\ request.op = "search_todos"
    /\ \E fault \in {"none", "query"}, order \in order_by_created_at_desc(store) :
          LET o == route_search_todos(store, request.q, order, fault)
          IN  /\ store' = o.st
              /\ result' = Response("search_todos", request.id, request.req, request.q,
                                    fault, store, o)
    /\ request' = NoRequest
    /\ UNCHANGED <<nextId, now, held, calls>>

(* A caller of the service: TodoService.get_todos_by_status *)
GetTodosByStatus ==
    /\ request.op = "get_todos_by_status"
    /\ \E fault \in {"none", "query"}, order \in order_by_created_at_desc(store) :
          LET o == get_todos_by_status(store, request.q.completed, order, fault)
          IN  /\ store' = o.st
              /\ result' = Response("get_todos_by_status", request.id, request.req, request.q,
                                    fault, store, o)
    /\ request' = NoRequest
    /\ UNCHANGED <<nextId, now, held, calls>>

(* A caller of the service: TodoService.get_todo_statistics *)
GetTodoStatistics ==
    /\ request.op = "get_todo_statistics"
    /\ \E fault \in {"none", "query"} :
          LET o == get_todo_statistics(store, fault)
          IN  /\ store' = o.st
              /\ result' = Response("get_todo_statistics", request.id, request.req, request.q,
                                    fault, store, o)
    /\ request' = NoRequest
    /\ UNCHANGED <<nextId, now, held, calls>>

(* The client that received a full page asks for the next one; held keeps  *)
(* the first request and the records of the pages received so far          *)
NextPage ==
    /\ request = NoRequest
    /\ result.op \in {"get_todos", "get_all_todos", "search_todos"}
    /\ result.kind = "ok"
    /\ Len(result.items) = result.q.limit
    /\ request' = [op |-> result.op, id |-> NoId, req |-> NoFields,
                   q |-> [result.q EXCEPT !.skip = @ + result.q.limit]]
    /\ held' = IF held.op = result.op
               THEN [held EXCEPT !.items = @ \o result.items]
               ELSE result
    /\ UNCHANGED <<store, nextId, now, result, calls>>

(* The client that has just deleted a task asks for it again: by its id,   *)
(* by a second delete, in the list and in a search                         *)
Recheck ==
    /\ request = NoRequest
    /\ result.op = "delete"
    /\ result.kind = "ok"
    /\ \/ \E op \in {"get", "delete"} :
             request' = [op |-> op, id |-> result.id, req |-> NoFields, q |-> NoQuery]
       \/ \E op \in {"get_todos", "search_todos"} :
             request' = [op |-> op, id |-> NoId, req |-> NoFields, q |-> NoQuery]
    /\ held' = result
    /\ UNCHANGED <<store, nextId, now, result, calls>>

(* The response has been consumed *)
Finish ==
    /\ request = NoRequest
    /\ result /= NoResult
    /\ result' = NoResult
    /\ held' = NoResult
    /\ UNCHANGED <<store, nextId, now, request, calls>>

Next ==
    \/ Tick
    \/ Submit
    \/ ReadBack
    \/ CreateTodo
    \/ GetTodoById
    \/ UpdateTodo
    \/ DeleteTodo
    \/ GetTodos
    \/ GetAllTodos
    \/ SearchTodos
    \/ GetTodosByStatus
    \/ GetTodoStatistics
    \/ NextPage
    \/ Recheck
    \/ Finish

Spec == Init /\ [][Next]_vars

----------------------------------------------------------------------------
(* Concurrent calls.  The workers are processes of the application that   *)
(* share the database (the endpoints are async functions that make         *)
(* blocking calls, so one event loop serves one request at a time).  Each  *)
(* worker serves one call at a time on a session of its own (get_db),      *)
(* statement by statement; the statements of different workers             *)
(* interleave.  A SELECT sees the rows committed at the                    *)
(* moment it runs (READ COMMITTED); a row already loaded in the session    *)
(* keeps the attribute values it was loaded with until it is refreshed.    *)
(* A call is PUT /todos/{id} {"completed": value}, DELETE /todos/{id},     *)
(* POST /todos/ {"title": "x", "completed": value} or a direct call of     *)
(* TodoService.get_todo_statistics.                                        *)

ConcIds == 0 .. MaxTodos

ConcCalls ==
    [op : {"update"}, id : ConcIds, value : BOOLEAN]
    \cup [op : {"delete"}, id : ConcIds, value : {FALSE}]
    \cup [op : {"create"}, id : {NoId}, value : BOOLEAN]
    \cup [op : {"get_todo_statistics"}, id : {NoId}, value : {FALSE}]

(* The body of the POST of a concurrent call *)
ConcCreateBody(value) == [NoFields EXCEPT !.title = Str(0, 1, 0), !.completed = Bool(value)]

(* The table of a deployment in use: one pending task, created at time 0 *)
InitConc ==
    /\ store = repo_create(<< >>, 1, TodoCreate(ConcCreateBody(FALSE)), 0, "none").st
    /\ nextId = 2
    /\ now = 0
    /\ request = NoRequest
    /\ result = NoResult
    /\ held = NoResult
    /\ calls = [p \in Procs |-> NoCall]

(* A statement is executed on the session of the call *)
Use(c) == [c EXCEPT !.used_closed = @ \/ c.session /= "open",
                    !.txstart = IF @ = -1 THEN now ELSE @]

(* The call has ended inside the endpoint, normally or with an exception *)
Ended(c, kind, ret) == [c EXCEPT !.kind = kind, !.ret = ret, !.pc = "exit"]

(* The number of the next commit *)
NextCommitNo ==
    1 + (CHOOSE m \in 0 .. 2 * MaxCalls :
            /\ \A q \in Procs : calls[q].commit_no <= m
            /\ \E q \in Procs : calls[q].commit_no = m)

(* A worker receives a request *)
Call(p) ==
    /\ calls[p].pc = "idle"
    /\ calls[p].n < MaxCalls
    /\ \E c \in ConcCalls :
          /\ c.op = "create" =>
                (nextId <= MaxTodos /\ \A q \in Procs : calls[q].op /= "create")
          /\ calls' = [calls EXCEPT ![p] =
                          [NoCall EXCEPT !.op = c.op, !.id = c.id, !.value = c.value,
                                         !.n = calls[p].n + 1,
                                         !.pc = IF c.op = "get_todo_statistics"
                                                THEN "count_all" ELSE "get_db"]]
    /\ UNCHANGED <<store, nextId, now, request, result, held>>

(* get_db: db = SessionLocal(); yield db *)
GetDb(p) ==
    /\ calls[p].pc = "get_db"
    /\ calls' = [calls EXCEPT ![p].session = "open", ![p].pc = "validate"]
    /\ UNCHANGED <<store, nextId, now, request, result, held>>

(* The validation at the head of the service method *)
Validate(p) ==
    /\ calls[p].pc = "validate"
    /\ calls' = [calls EXCEPT ![p] =
                    IF calls[p].op = "create" THEN [calls[p] EXCEPT !.pc = "insert"]
                    ELSE IF _validate_todo_id(calls[p].id) /= ""
                         THEN Ended(calls[p], "validation", FALSE)
                    ELSE [calls[p] EXCEPT !.pc = "check"]]
    /\ UNCHANGED <<store, nextId, now, request, result, held>>

(* The existence check of update_todo and delete_todo: repository.get_by_id *)
Check(p) ==
    /\ calls[p].pc = "check"
    /\ LET r == repo_get_by_id(store, calls[p].id, "none")
       IN  calls' = [calls EXCEPT ![p] =
                        IF r.row = NoRow THEN Ended(Use(calls[p]), "notfound", FALSE)
                        ELSE [Use(calls[p]) EXCEPT !.loaded = r.row, !.pc = "requery"]]
    /\ UNCHANGED <<store, nextId, now, request, result, held>>

(* The query at the head of repository.update and repository.delete.  The  *)
(* row, if still there, is the object already loaded, with the attribute   *)
(* values of the existence check.  If it is gone, update returns None,     *)
(* which TodoResponse.model_validate refuses, and delete returns False.    *)
Requery(p) ==
    /\ calls[p].pc = "requery"
    /\ LET r == repo_get_by_id(store, calls[p].id, "none")
       IN  calls' = [calls EXCEPT ![p] =
                        IF r.row /= NoRow THEN [Use(calls[p]) EXCEPT !.pc = "commit"]
                        ELSE IF calls[p].op = "delete" THEN Ended(Use(calls[p]), "ok", FALSE)
                        ELSE IF model_validate(r.row).ok THEN Ended(Use(calls[p]), "ok", TRUE)
                        ELSE Ended(Use(calls[p]), "database", FALSE)]
    /\ UNCHANGED <<store, nextId, now, request, result, held>>

(* setattr and db.commit() of repository.update.  An UPDATE is emitted     *)
(* only if the value differs from the loaded one; it sets updated_at to    *)
(* now(), which is the start of the transaction on PostgreSQL and the time *)
(* of the statement on SQLite.  An UPDATE that matches no row raises       *)
(* StaleDataError, and the repository rolls back.                          *)
CommitUpdate(p) ==
    /\ calls[p].pc = "commit"
    /\ calls[p].op = "update"
    /\ LET c == Use(calls[p])
           committed == [c EXCEPT !.commit_no = NextCommitNo, !.committed_at = now,
                                  !.pc = "refresh"]
       IN  IF ~Modified(c.loaded, [c.loaded EXCEPT !.completed = Bool(c.value)])
           THEN /\ calls' = [calls EXCEPT ![p] = committed]
                /\ store' = store
           ELSE IF c.id \notin DOMAIN store
           THEN /\ calls' = [calls EXCEPT ![p] = Ended(c, "database", FALSE)]
                /\ store' = store
           ELSE /\ calls' = [calls EXCEPT ![p] = committed]
                /\ \E ts \in {c.txstart, now} :
                      store' = [store EXCEPT ![c.id].completed = Bool(c.value),
                                             ![c.id].updated_at = ts]
    /\ UNCHANGED <<nextId, now, request, result, held>>

(* db.delete and db.commit() of repository.delete.  raced marks the        *)
(* updates of the same id that have passed their existence check and have  *)
(* not written yet.  A DELETE that matches no row gives a warning or a     *)
(* StaleDataError, depending on the mapper's confirm_deleted_rows.         *)
CommitDelete(p) ==
    /\ calls[p].pc = "commit"
    /\ calls[p].op = "delete"
    /\ LET c == Use(calls[p])
       IN  IF c.id \in DOMAIN store
           THEN /\ LET r == repo_delete(store, c.id, "none")
                   IN  /\ store' = r.st
                       /\ calls' = [q \in Procs |->
                              IF q = p
                              THEN [Ended(c, "ok", r.ret) EXCEPT !.commit_no = NextCommitNo,
                                                                 !.committed_at = now]
                              ELSE IF /\ calls[q].op = "update"
                                      /\ calls[q].id = c.id
                                      /\ calls[q].pc \in {"requery", "commit"}
                                   THEN [calls[q] EXCEPT !.raced = TRUE]
                              ELSE calls[q]]
           ELSE /\ store' = store
                /\ \/ calls' = [calls EXCEPT ![p] = Ended(c, "ok", TRUE)]
                   \/ calls' = [calls EXCEPT ![p] = Ended(c, "database", FALSE)]
    /\ UNCHANGED <<nextId, now, request, result, held>>

(* db.add and db.commit() of repository.create *)
Insert(p) ==
    /\ calls[p].pc = "insert"
    /\ LET c == Use(calls[p])
           r == repo_create(store, nextId, TodoCreate(ConcCreateBody(c.value)), now, "none")
       IN  /\ store' = r.st
           /\ nextId' = nextId + 1
           /\ calls' = [calls EXCEPT ![p] =
                           [c EXCEPT !.id = nextId, !.commit_no = NextCommitNo,
                                     !.committed_at = now, !.pc = "refresh"]]
    /\ UNCHANGED <<now, request, result, held>>

(* db.refresh(db_todo), then TodoResponse.model_validate.  A row that is   *)
(* gone raises InvalidRequestError.                                        *)
Refresh(p) ==
    /\ calls[p].pc = "refresh"
    /\ LET r == repo_get_by_id(store, calls[p].id, "none")
           resp == model_validate(r.row)
       IN  calls' = [calls EXCEPT ![p] =
                        IF r.row = NoRow \/ ~resp.ok
                        THEN Ended(Use(calls[p]), "database", FALSE)
                        ELSE [Ended(Use(calls[p]), "ok", TRUE)
                                 EXCEPT !.loaded = r.row, !.task = resp.v]]
    /\ UNCHANGED <<store, nextId, now, request, result, held>>

(* get_db: except Exception: db.rollback(); raise.  The endpoint has       *)
(* raised an HTTPException.                                                *)
GetDbExcept(p) ==
    /\ calls[p].pc = "exit"
    /\ calls[p].kind /= "ok"
    /\ calls' = [calls EXCEPT ![p].rollbacks = @ + 1,
                              ![p].rolled_back_open = (calls[p].session = "open"),
                              ![p].pc = "finally"]
    /\ UNCHANGED <<store, nextId, now, request, result, held>>

(* Mutant of GetDbFinally: the session is closed only after a normal return *)
GetDbFinally_OnlyOnSuccess(p) ==
    /\ \/ calls[p].pc = "finally"
       \/ calls[p].pc = "exit" /\ calls[p].kind = "ok"
    /\ calls' = [calls EXCEPT ![p] =
                    IF calls[p].pc = "finally"
                    THEN [calls[p] EXCEPT !.status = StatusOf(calls[p].op, calls[p].kind),
                                          !.pc = "done"]
                    ELSE [calls[p] EXCEPT !.closes = @ + 1, !.session = "closed",
                                          !.status = StatusOf(calls[p].op, calls[p].kind),
                                          !.pc = "done"]]
    /\ UNCHANGED <<store, nextId, now, request, result, held>>

(* get_db: finally: db.close(), after a normal return of the endpoint or   *)
(* after the except clause; the response leaves with its status            *)
GetDbFinally(p) ==
    /\ \/ calls[p].pc = "finally"
       \/ calls[p].pc = "exit" /\ calls[p].kind = "ok"
    /\ calls' = [calls EXCEPT ![p].closes = @ + 1, ![p].session = "closed",
                              ![p].status = StatusOf(calls[p].op, calls[p].kind),
                              ![p].pc = "done"]
    /\ UNCHANGED <<store, nextId, now, request, result, held>>

(* get_todo_statistics: total_count = self.repository.count_all() *)
CountAll(p) ==
    /\ calls[p].pc = "count_all"
    /\ calls' = [calls EXCEPT ![p].total = repo_count_all(store),
                              ![p].pc = "count_completed"]
    /\ UNCHANGED <<store, nextId, now, request, result, held>>

(* get_todo_statistics: completed_count = count_by_completion_status(True) *)
CountCompleted(p) ==
    /\ calls[p].pc = "count_completed"
    /\ calls' = [calls EXCEPT
                    ![p].completed = repo_count_by_completion_status(store, Bool(TRUE)),
                    ![p].pc = "count_pending"]
    /\ UNCHANGED <<store, nextId, now, request, result, held>>

(* get_todo_statistics: pending_count = count_by_completion_status(False), *)
(* then the dictionary is built and returned                               *)
CountPending(p) ==
    /\ calls[p].pc = "count_pending"
    /\ LET pending_count == repo_count_by_completion_status(store, Bool(FALSE))
       IN  calls' = [calls EXCEPT
                        ![p].pending = pending_count,
                        ![p].statistics = statistics(calls[p].total, calls[p].completed,
                                                     pending_count),
                        ![p].kind = "ok", ![p].ret = TRUE, ![p].pc = "done"]
    /\ UNCHANGED <<store, nextId, now, request, result, held>>

(* The worker is free for its next call *)
Done(p) ==
    /\ calls[p].pc = "done"
    /\ calls' = [calls EXCEPT ![p] = [NoCall EXCEPT !.n = calls[p].n]]
    /\ UNCHANGED <<store, nextId, now, request, result, held>>

NextConc ==
    \/ Tick
    \/ \E p \in Procs : Call(p)
    \/ \E p \in Procs : GetDb(p)
    \/ \E p \in Procs : Validate(p)
    \/ \E p \in Procs : Check(p)
    \/ \E p \in Procs : Requery(p)
    \/ \E p \in Procs : CommitUpdate(p)
    \/ \E p \in Procs : CommitDelete(p)
    \/ \E p \in Procs : Insert(p)
    \/ \E p \in Procs : Refresh(p)
    \/ \E p \in Procs : GetDbExcept(p)
    \/ \E p \in Procs : GetDbFinally(p)
    \/ \E p \in Procs : CountAll(p)
    \/ \E p \in Procs : CountCompleted(p)
    \/ \E p \in Procs : CountPending(p)
    \/ \E p \in Procs : Done(p)

SpecConc == InitConc /\ [][NextConc]_vars

----------------------------------------------------------------------------
(* Properties *)

(* Shapes of values, written out so that they do not depend on the model's *)
(* own tests                                                               *)
NonBlankStr(v) == v.k = "str" /\ v.body > 0
BlankStr(v) == v.k = "str" /\ v.body = 0
LongerThan(v, n) == v.k = "str" /\ v.lead + v.body + v.trail > n
Trimmed(v) == [k |-> "str", lead |-> 0, body |-> v.body, trail |-> 0]

(* C1: a task read back by the id that create returned, with nothing       *)
(* changed in between, has the id, title, description, completed, end_date *)
(* and created_at that create returned; fields omitted at creation read    *)
(* back as completed=false, description=null, end_date=null.               *)
C1_RoundTrip ==
    (result.op = "get" /\ held.op = "create" /\ result.fault = "none")
    => /\ result.kind = "ok"
       /\ result.id = held.task.id
       /\ result.task.id = held.task.id
       /\ result.task.title = held.task.title
       /\ result.task.description = held.task.description
       /\ result.task.completed = held.task.completed
       /\ result.task.end_date = held.task.end_date
       /\ result.task.created_at = held.task.created_at
       /\ (held.req.completed = Unset => result.task.completed = Bool(FALSE))
       /\ (held.req.description = Unset => result.task.description = Null)
       /\ (held.req.end_date = Unset => result.task.end_date = Null)

C1_Witness ==
    /\ result.op = "get"
    /\ result.kind = "ok"
    /\ held.op = "create"
    /\ held.req = [NoFields EXCEPT !.title = Str(1, 1, 1)]
    /\ result.task.id = 2
    /\ result.task.title = Str(0, 1, 0)
    /\ result.task.completed = Bool(FALSE)
    /\ result.task.end_date = Null

(* C2: no stored task has a title that is empty or whitespace-only.        *)
C2_TitleNeverBlank ==
    \A i \in DOMAIN store : NonBlankStr(store[i].title)

C2_Witness ==
    /\ result.op = "update"
    /\ result.id \in DOMAIN store
    /\ result.req.title = Str(2, 0, 0)
    /\ result.kind = "validation"
    /\ NonBlankStr(store[result.id].title)

(* C3: a create whose title has at most 200 characters and is not blank    *)
(* (the rest of the body being valid and the store not failing) succeeds   *)
(* and stores the title with leading and trailing whitespace removed.      *)
C3_CreateStoresTrimmedTitle ==
    (/\ result.op = "create"
     /\ NonBlankStr(result.req.title)
     /\ ~LongerThan(result.req.title, 200)
     /\ ~LongerThan(result.req.description, 1000)
     /\ result.fault = "none")
    => /\ result.kind = "ok"
       /\ result.task.id \in DOMAIN store
       /\ store[result.task.id].title = Trimmed(result.req.title)
       /\ result.task.title = Trimmed(result.req.title)

C3_Witness ==
    /\ result.op = "create"
    /\ result.kind = "ok"
    /\ result.req.title = Str(0, 200, 0)
    /\ store[result.task.id].title = Str(0, 200, 0)

(* C4: the description of a stored task is null or a non-empty trimmed     *)
(* string; a description that is empty after trimming is stored as null.   *)
C4_DescriptionNullOrTrimmed ==
    \A i \in DOMAIN store :
        \/ store[i].description = Null
        \/ /\ NonBlankStr(store[i].description)
           /\ store[i].description.lead = 0
           /\ store[i].description.trail = 0

C4_Witness ==
    /\ result.op = "update"
    /\ result.kind = "ok"
    /\ result.req.description = Str(2, 0, 0)
    /\ result.before[result.id].description = Str(0, 1, 0)
    /\ store[result.id].description = Null

(* C5: a create whose title is empty or whitespace-only or longer than 200 *)
(* characters, or whose description is longer than 1000 characters, ends   *)
(* with a Validation outcome (HTTP 422) and adds no record.                *)
C5_BadCreateRejected ==
    (/\ result.op = "create"
     /\ \/ BlankStr(result.req.title)
        \/ LongerThan(result.req.title, 200)
        \/ LongerThan(result.req.description, 1000))
    => /\ result.kind = "validation"
       /\ result.status = 422
       /\ result.task = NoTask
       /\ store = result.before

C5_Witness ==
    /\ result.op = "create"
    /\ result.req.title = Str(1, 200, 0)
    /\ result.kind = "validation"
    /\ result.status = 422
    /\ store /= << >>

NoFieldSupplied(req) ==
    req.title = Unset /\ req.description = Unset /\ req.completed = Unset /\ req.end_date = Unset

(* C6 as claimed: an update that supplies no field fails with              *)
(* TodoValidationError 'At least one field must be provided for update'    *)
(* for every id, and the store is unchanged.                               *)
C6_Original ==
    (result.op = "update" /\ NoFieldSupplied(result.req))
    => /\ result.kind = "validation"
       /\ result.msg = "At least one field must be provided for update"
       /\ store = result.before

(* C6 as amended: an update that supplies no field fails with              *)
(* TodoValidationError for every id and leaves the store unchanged; the    *)
(* message is 'At least one field must be provided for update' for a       *)
(* positive id and 'Todo ID must be a positive integer' for an id that is  *)
(* zero or negative, the id being validated first.                         *)
C6_EmptyUpdateRejected ==
    (result.op = "update" /\ NoFieldSupplied(result.req))
    => /\ result.kind = "validation"
       /\ result.status = 422
       /\ result.msg = IF result.id > 0
                       THEN "At least one field must be provided for update"
                       ELSE "Todo ID must be a positive integer"
       /\ store = result.before

C6_Witness ==
    /\ result.op = "update"
    /\ NoFieldSupplied(result.req)
    /\ result.id \in DOMAIN store
    /\ result.kind = "validation"
    /\ result.msg = "At least one field must be provided for update"

(* A supplied field that is invalid: a title that is null, blank or longer *)
(* than 200 characters, a completed that is null, a description longer     *)
(* than 1000 characters                                                    *)
InvalidFieldSupplied(req) ==
    \/ req.title = Null
    \/ BlankStr(req.title)
    \/ LongerThan(req.title, 200)
    \/ req.completed = Null
    \/ LongerThan(req.description, 1000)

(* C7: an update of an existing id in which a supplied field is invalid    *)
(* fails with the Validation kind and leaves the record unchanged.         *)
C7_InvalidUpdateIsValidation ==
    (/\ result.op = "update"
     /\ result.id \in DOMAIN result.before
     /\ InvalidFieldSupplied(result.req))
    => /\ result.kind = "validation"
       /\ store = result.before

(* C8: a successful update changes only the supplied fields of the target  *)
(* record: its other fields, its id and created_at keep their values, and  *)
(* every other record is unchanged.                                        *)
C8_UpdateFrame ==
    (result.op = "update" /\ result.kind = "ok")
    => /\ DOMAIN store = DOMAIN result.before
       /\ result.id \in DOMAIN store
       /\ \A i \in DOMAIN store : i /= result.id => store[i] = result.before[i]
       /\ store[result.id].id = result.before[result.id].id
       /\ store[result.id].created_at = result.before[result.id].created_at
       /\ \A f \in {"title", "description", "completed", "end_date"} :
             result.req[f] = Unset => store[result.id][f] = result.before[result.id][f]

C8_Witness ==
    /\ result.op = "update"
    /\ result.kind = "ok"
    /\ result.req = [NoFields EXCEPT !.title = Str(1, 1, 1), !.completed = Bool(TRUE)]
    /\ DOMAIN store = {1, 2}
    /\ result.before[result.id].title = Str(0, 200, 0)
    /\ result.before[result.id].completed = Bool(FALSE)
    /\ result.before[result.id].description = Str(0, 1, 0)
    /\ result.before[result.id].end_date = Date(1)
    /\ store[result.id].title = Str(0, 1, 0)
    /\ store[result.id].completed = Bool(TRUE)
    /\ store[result.id].description = Str(0, 1, 0)
    /\ store[result.id].end_date = Date(1)

(* C9: in a successful update, end_date supplied as null clears the        *)
(* deadline, and an update that does not mention end_date leaves the       *)
(* stored end_date unchanged.                                              *)
C9_NullClearsUnsetKeeps ==
    (result.op = "update" /\ result.kind = "ok")
    => /\ result.req.end_date = Null
             => (store[result.id].end_date = Null /\ result.task.end_date = Null)
       /\ result.req.end_date = Unset
             => store[result.id].end_date = result.before[result.id].end_date

C9_Witness ==
    /\ result.op = "update"
    /\ result.kind = "ok"
    /\ result.req.end_date = Null
    /\ result.before[result.id].end_date = Date(1)
    /\ store[result.id].end_date = Null
    /\ result.task.end_date = Null

C11_UpdatedNotBeforeCreated ==
    \A i \in DOMAIN store : store[i].updated_at >= store[i].created_at

C11_Witness ==
    /\ result.op = "update"
    /\ result.kind = "ok"
    /\ store[result.id].created_at = 0
    /\ result.before[result.id].updated_at = 0
    /\ store[result.id].updated_at = 1
    /\ \E i \in DOMAIN store : store[i].created_at = 1 /\ store[i].updated_at = 1

(* C12: ids are stable and unique: no two stored tasks share an id, every  *)
(* id is a positive integer, no operation changes the id of an existing    *)
(* record, and create returns an id that no other stored record holds.     *)
C12_IdsStableUnique ==
    /\ \A i, j \in DOMAIN store : i /= j => store[i].id /= store[j].id
    /\ \A i \in DOMAIN store : store[i].id \in Nat \ {0}
    /\ result.op /= "none" =>
          \A i \in DOMAIN store \cap DOMAIN result.before :
             store[i].id = result.before[i].id
    /\ (result.op = "create" /\ result.kind = "ok") =>
          /\ \A i \in DOMAIN result.before : result.before[i].id /= result.task.id
          /\ \E i \in DOMAIN store : store[i].id = result.task.id
          /\ \A i, j \in DOMAIN store :
                (store[i].id = result.task.id /\ store[j].id = result.task.id) => i = j

C12_Witness ==
    /\ result.op = "create"
    /\ result.kind = "ok"
    /\ result.task.id = 2
    /\ DOMAIN result.before = {1}
    /\ DOMAIN store = {1, 2}
    /\ store[1].id = 1

(* C13: a successful delete removes exactly the record with that id: every *)
(* other record is unchanged, and afterwards get by that id fails with     *)
(* NotFound, a second delete fails with NotFound, and the record is in     *)
(* neither the list nor the search results.                                *)
C13_DeleteRemovesExactlyOne ==
    /\ (result.op = "delete" /\ result.kind = "ok") =>
          /\ result.id \in DOMAIN result.before
          /\ DOMAIN store = DOMAIN result.before \ {result.id}
          /\ \A i \in DOMAIN store : store[i] = result.before[i]
    /\ (held.op = "delete" /\ request = NoRequest /\ result.fault = "none") =>
          /\ result.op \in {"get", "delete"} =>
                /\ result.id = held.id
                /\ result.kind = "notfound"
                /\ result.status = 404
                /\ store = result.before
          /\ result.op \in {"get_todos", "search_todos"} =>
                /\ result.kind = "ok"
                /\ \A k \in DOMAIN result.items : result.items[k].id /= held.id
                /\ Len(result.items) = Cardinality(DOMAIN held.before) - 1

C13_Witness ==
    /\ held.op = "delete"
    /\ held.kind = "ok"
    /\ held.id = 1
    /\ DOMAIN held.before = {1, 2}
    /\ request = NoRequest
    /\ result.op = "delete"
    /\ result.id = 1
    /\ result.kind = "notfound"
    /\ DOMAIN store = {2}

(* C14: get, update with a valid non-empty payload, and delete, called     *)
(* with a positive id that is not in the store, fail with                  *)
(* TodoNotFoundError carrying exactly the requested id, and the store is   *)
(* unchanged.                                                              *)
C14_MissingIdIsNotFound ==
    (/\ result.op \in {"get", "update", "delete"}
     /\ result.id > 0
     /\ result.id \notin DOMAIN result.before
     /\ result.fault /= "query"
     /\ result.op = "update" =>
           (~NoFieldSupplied(result.req) /\ ~InvalidFieldSupplied(result.req)))
    => /\ result.kind = "notfound"
       /\ result.todo_id = result.id
       /\ result.status = 404
       /\ store = result.before

C14_Witness ==
    /\ result.op = "update"
    /\ result.req = [NoFields EXCEPT !.title = Str(1, 1, 1), !.completed = Bool(TRUE)]
    /\ result.id = 2
    /\ DOMAIN result.before = {1}
    /\ result.kind = "notfound"
    /\ result.todo_id = 2
    /\ store = result.before

(* The filters of a query, written out: a filter that is null is not       *)
(* supplied                                                                *)
Satisfies(row, q) ==
    /\ q.completed = Null \/ row.completed = q.completed
    /\ q.end_date_from = Null \/ (row.end_date.k = "date" /\ row.end_date.v >= q.end_date_from.v)
    /\ q.end_date_to = Null \/ (row.end_date.k = "date" /\ row.end_date.v <= q.end_date_to.v)

IsListing(r) == r.op \in {"get_todos", "get_all_todos", "search_todos"} /\ r.kind = "ok"

(* The last page of a run of pages that started at skip = 0 has arrived *)
LastPageArrived ==
    /\ IsListing(result)
    /\ request = NoRequest
    /\ Len(result.items) < result.q.limit
    /\ IF held.op = result.op THEN held.q.skip = 0 ELSE result.q.skip = 0

(* The pages received, concatenated *)
PagesSoFar == IF held.op = result.op THEN held.items \o result.items ELSE result.items

(* C15: pagination covers the data set exactly: each page has at most      *)
(* limit records, and the pages for skip = 0, k, 2k, ... of a fixed store, *)
(* concatenated, hold every record that satisfies the filter exactly once, *)
(* in descending created_at order.                                         *)
C15_PagesCoverExactly ==
    /\ IsListing(result) => Len(result.items) <= result.q.limit
    /\ LastPageArrived =>
          LET all == PagesSoFar
              expected == { i \in DOMAIN result.before : Satisfies(result.before[i], result.q) }
          IN  /\ \A i \in expected : \E k \in DOMAIN all : all[k].id = i
              /\ \A k \in DOMAIN all : all[k].id \in expected
              /\ \A k, l \in DOMAIN all : k /= l => all[k].id /= all[l].id
              /\ \A k, l \in DOMAIN all : k < l => all[k].created_at >= all[l].created_at

(* C15 for stores in which no two records share created_at *)
C15_PagesCoverExactly_DistinctTimes ==
    (\A i, j \in DOMAIN store : i /= j => store[i].created_at /= store[j].created_at)
    => C15_PagesCoverExactly

C15_PagedTwice ==
    /\ LastPageArrived
    /\ held.op = "get_todos"
    /\ result.q.limit = 1
    /\ Len(PagesSoFar) = 2
    /\ PagesSoFar[1].id = 2
    /\ PagesSoFar[2].id = 1
    /\ PagesSoFar[1].created_at = 1
    /\ PagesSoFar[2].created_at = 0

(* C16: list and search results are in descending created_at order, and    *)
(* records with the same created_at appear with the larger id first, so    *)
(* that the order is total and two calls on an unchanged store return the  *)
(* same sequence.                                                          *)
C16_OrderTotalDeterministic ==
    IsListing(result) =>
        \A k, l \in DOMAIN result.items :
            k < l => \/ result.items[k].created_at > result.items[l].created_at
                     \/ /\ result.items[k].created_at = result.items[l].created_at
                        /\ result.items[k].id > result.items[l].id

(* C16, the part that holds: results are in descending created_at order *)
C16_DescendingCreatedAt ==
    IsListing(result) =>
        \A k, l \in DOMAIN result.items :
            k < l => result.items[k].created_at >= result.items[l].created_at

BoundsInOrder(q) ==
    q.end_date_from = Null \/ q.end_date_to = Null \/ q.end_date_from.v <= q.end_date_to.v

(* A search that asks for everything that matches, and whose query ran *)
WholeSearch ==
    /\ result.op = "search_todos"
    /\ result.fault = "none"
    /\ result.q.skip = 0
    /\ result.q.limit \in 1 .. 1000
    /\ result.q.limit >= Cardinality(DOMAIN result.before)
    /\ BoundsInOrder(result.q)

ItemIds(r) == { r.items[k].id : k \in DOMAIN r.items }

(* C17: search filters conjunctively: with skip = 0 and a limit of at      *)
(* least the store size the result is exactly the stored records that      *)
(* satisfy every supplied filter, an empty list and not an error when      *)
(* nothing matches; a search with no filter returns what get_all_todos     *)
(* returns for the same skip and limit.                                    *)
C17_SearchConjunctive ==
    /\ WholeSearch =>
          /\ result.kind = "ok"
          /\ ItemIds(result) = { i \in DOMAIN result.before : Satisfies(result.before[i], result.q) }
          /\ Len(result.items) = Cardinality(ItemIds(result))
          /\ \A k \in DOMAIN result.items :
                LET row == result.before[result.items[k].id]
                IN  /\ result.items[k].title = row.title
                    /\ result.items[k].completed = row.completed
                    /\ result.items[k].end_date = row.end_date
    /\ (/\ result.op = "search_todos"
        /\ result.kind = "ok"
        /\ result.q.completed = Null
        /\ result.q.end_date_from = Null
        /\ result.q.end_date_to = Null) =>
          \E o \in order_by_created_at_desc(result.before) :
              result.items = get_all_todos(result.before, result.q.skip, result.q.limit,
                                           o, "none").items

C17_Witness ==
    /\ WholeSearch
    /\ result.q.completed = Bool(FALSE)
    /\ result.q.end_date_from = Null
    /\ result.q.end_date_to = Date(1)
    /\ DOMAIN result.before = {1, 2}
    /\ result.before[1].completed = Bool(FALSE)
    /\ result.before[1].end_date = Date(1)
    /\ result.before[2].completed = Bool(TRUE)
    /\ result.before[2].end_date = Date(1)
    /\ Len(result.items) = 1
    /\ result.items[1].id = 1

(* C18: the deadline bounds are inclusive and exclude records without a    *)
(* deadline: a record matches end_date_from = F iff its end_date is not    *)
(* null and >= F, and end_date_to = T iff its end_date is not null and     *)
(* <= T.                                                                   *)
C18_BoundsInclusive ==
    (WholeSearch /\ result.q.completed = Null) =>
        \A i \in DOMAIN result.before :
            LET e == result.before[i].end_date
                F == result.q.end_date_from
                T == result.q.end_date_to
            IN  /\ (F /= Null /\ T = Null) =>
                      (i \in ItemIds(result) <=> (e /= Null /\ e.v >= F.v))
                /\ (F = Null /\ T /= Null) =>
                      (i \in ItemIds(result) <=> (e /= Null /\ e.v <= T.v))
                /\ (F /= Null /\ T /= Null) =>
                      (i \in ItemIds(result) <=> (e /= Null /\ e.v >= F.v /\ e.v <= T.v))
                /\ ((F /= Null \/ T /= Null) /\ e = Null) => i \notin ItemIds(result)

C18_Witness ==
    /\ WholeSearch
    /\ result.q.completed = Null
    /\ result.q.end_date_from = Date(1)
    /\ result.q.end_date_to = Date(1)
    /\ DOMAIN result.before = {1, 2}
    /\ result.before[1].end_date = Null
    /\ result.before[2].end_date = Date(1)
    /\ ItemIds(result) = {2}

(* C19: a search with both bounds supplied and end_date_from > end_date_to *)
(* fails with a Validation outcome (HTTP 422) before any query is run; a   *)
(* search with end_date_from = end_date_to, or with one bound only, is     *)
(* accepted.                                                               *)
C19_InvertedRangeRejected ==
    /\ (/\ result.op = "search_todos"
        /\ result.q.end_date_from /= Null
        /\ result.q.end_date_to /= Null
        /\ result.q.end_date_from.v > result.q.end_date_to.v) =>
          /\ result.kind = "validation"
          /\ result.status = 422
          /\ ~result.queried
          /\ store = result.before
    /\ (/\ result.op = "search_todos"
        /\ result.q.skip >= 0
        /\ result.q.limit \in 1 .. 1000
        /\ result.fault = "none"
        /\ \/ result.q.end_date_from = Null
           \/ result.q.end_date_to = Null
           \/ result.q.end_date_from.v = result.q.end_date_to.v) =>
          /\ result.kind = "ok"
          /\ result.queried

C19_Witness ==
    /\ result.op = "search_todos"
    /\ result.q.end_date_from = Date(2)
    /\ result.q.end_date_to = Date(1)
    /\ result.q.limit = 1000
    /\ result.kind = "validation"
    /\ \E i \in DOMAIN store : store[i].end_date = Date(1)

PaginationInvalid(q) == q.skip < 0 \/ q.limit <= 0 \/ q.limit > 1000

(* C20 as claimed: get_all_todos and search_todos fail with a Validation   *)
(* outcome exactly when skip < 0, limit <= 0 or limit > 1000, and no call  *)
(* with limit > 1000 reaches the repository.                               *)
C20_Original ==
    result.op \in {"get_todos", "get_all_todos", "search_todos"} =>
        /\ result.kind = "validation" <=> PaginationInvalid(result.q)
        /\ result.q.limit > 1000 => ~result.queried

(* C20 as amended: get_all_todos fails with a Validation outcome exactly   *)
(* when skip < 0, limit <= 0 or limit > 1000; search_todos fails with a    *)
(* Validation outcome exactly when one of these holds or both deadline     *)
(* bounds are supplied with end_date_from > end_date_to; no call with      *)
(* invalid pagination reaches the repository.                              *)
C20_PaginationValidated ==
    /\ result.op \in {"get_todos", "get_all_todos"} =>
          (result.kind = "validation" <=> PaginationInvalid(result.q))
    /\ result.op = "search_todos" =>
          (result.kind = "validation" <=> (PaginationInvalid(result.q) \/ ~BoundsInOrder(result.q)))
    /\ (result.op \in {"get_todos", "get_all_todos", "search_todos"}
          /\ PaginationInvalid(result.q)) => (~result.queried /\ store = result.before)
    /\ (result.op = "get_all_todos" /\ result.kind = "validation") =>
          result.msg = IF result.q.skip < 0 THEN "Skip parameter must be a non-negative integer"
                       ELSE IF result.q.limit <= 0
                            THEN "Limit parameter must be a positive integer"
                       ELSE "Limit parameter cannot exceed 1000"

C20_Witness ==
    /\ result.op = "get_all_todos"
    /\ result.q.skip = 0
    /\ result.q.limit = 1001
    /\ result.kind = "validation"
    /\ result.msg = "Limit parameter cannot exceed 1000"
    /\ ~result.queried
    /\ store /= << >>

(* A body of PUT /todos/{todo_id} that the schema lets through to the      *)
(* service: a title, if a string, of 1 to 200 characters, a description of *)
(* at most 1000                                                            *)
UpdateReachesService(req) ==
    /\ req.title.k = "str" => (req.title.lead + req.title.body + req.title.trail >= 1
                               /\ ~LongerThan(req.title, 200))
    /\ ~LongerThan(req.description, 1000)

(* C21: get_todo_by_id, update_todo and delete_todo called with an id that *)
(* is zero or negative fail with TodoValidationError 'Todo ID must be a    *)
(* positive integer', not with NotFound, and no call with a positive id    *)
(* fails the validation of the id.                                         *)
C21_IdValidated ==
    (/\ result.op \in {"get", "update", "delete"}
     /\ result.op = "update" => UpdateReachesService(result.req))
    => /\ result.id <= 0 =>
             /\ result.kind = "validation"
             /\ result.msg = "Todo ID must be a positive integer"
             /\ result.status = 422
             /\ store = result.before
       /\ result.id > 0 => result.msg /= "Todo ID must be a positive integer"

C21_Witness ==
    /\ result.op = "delete"
    /\ result.id = 0
    /\ result.kind = "validation"
    /\ result.msg = "Todo ID must be a positive integer"
    /\ DOMAIN store = {1, 2}

(* C22: whenever create_todo, update_todo or delete_todo ends with         *)
(* TodoDatabaseError, the stored records and all their fields are the same *)
(* as before the call, and the session holds no pending change.            *)
C22_FailureLeavesStore ==
    (result.op \in {"create", "update", "delete"} /\ result.kind = "database")
    => /\ store = result.before
       /\ ~result.dirty

(* C22 for the failures that happen before the commit has succeeded: a     *)
(* failed lookup, a failed flush or commit, a value the model refuses      *)
C22_FailureBeforeCommitLeavesStore ==
    (/\ result.op \in {"create", "update", "delete"}
     /\ result.kind = "database"
     /\ result.fault /= "refresh")
    => /\ store = result.before
       /\ ~result.dirty

GenericDetail(op) ==
    CASE op = "create" -> "Failed to create todo item"
      [] op = "get" -> "Failed to retrieve todo item"
      [] op = "update" -> "Failed to update todo item"
      [] op = "delete" -> "Failed to delete todo item"
      [] op = "get_todos" -> "Failed to retrieve todo items"
      [] op = "search_todos" -> "Failed to search todo items"

(* C24: the router maps TodoNotFoundError to 404 with the requested id in  *)
(* the detail, TodoValidationError to 422 with the message and             *)
(* TodoDatabaseError to 500; the detail of a 500 is a fixed string per     *)
(* endpoint, the same whatever the cause of the failure.                   *)
C24_StatusMapping ==
    result.op \in {"create", "get", "update", "delete", "get_todos", "search_todos"}
    => /\ result.kind = "notfound" =>
             /\ result.status = 404
             /\ result.detail = "Todo item with id " \o ToString(result.id) \o " not found"
       /\ result.kind = "validation" =>
             /\ result.status = 422
             /\ result.detail = result.msg
       /\ result.kind = "database" =>
             /\ result.status = 500
             /\ result.detail = GenericDetail(result.op)
       /\ result.kind = "ok" => result.status \in {200, 201, 204}

C24_Witness ==
    /\ result.op = "update"
    /\ result.kind = "database"
    /\ result.original_error = "ValueError"
    /\ result.msg = "Unexpected error occurred while updating todo item 1"
    /\ result.status = 500
    /\ result.detail = "Failed to update todo item"

(* C26 as claimed: a call that fails with TodoValidationError invoked no   *)
(* repository method, and an update with an invalid or empty payload on an *)
(* id that does not exist fails with Validation rather than NotFound.      *)
C26_ValidationFirst ==
    /\ result.kind = "validation" => (~result.queried /\ store = result.before)
    /\ (/\ result.op = "update"
        /\ result.id \notin DOMAIN result.before
        /\ NoFieldSupplied(result.req) \/ InvalidFieldSupplied(result.req))
       => result.kind = "validation"

(* The part of C26 that holds: a call that fails with TodoValidationError  *)
(* invoked no repository method and changed nothing, and an update with no *)
(* field, or with a title that is blank or too long or a description that  *)
(* is too long, on an id that does not exist fails with Validation.        *)
C26_ValidationFirst_NonNull ==
    /\ result.kind = "validation" => (~result.queried /\ store = result.before)
    /\ (/\ result.op = "update"
        /\ result.id \notin DOMAIN result.before
        /\ \/ NoFieldSupplied(result.req)
           \/ BlankStr(result.req.title)
           \/ LongerThan(result.req.title, 200)
           \/ LongerThan(result.req.description, 1000))
       => result.kind = "validation"

(* Two updates of the same record that have both completed, p being the    *)
(* one that committed last                                                 *)
BothUpdated(p, q) ==
    /\ p /= q
    /\ calls[p].op = "update" /\ calls[q].op = "update"
    /\ calls[p].id = calls[q].id
    /\ calls[p].pc = "done" /\ calls[q].pc = "done"
    /\ calls[q].commit_no > 0
    /\ calls[p].commit_no > calls[q].commit_no

(* C25: when two update_todo calls on the same existing record both set    *)
(* the same field, neither fails because of the other, and once both have  *)
(* completed the stored value of the field is the one written by the call  *)
(* that committed last, with updated_at not earlier than that commit.      *)
C25_LastWriterWins ==
    \A p, q \in Procs :
        BothUpdated(p, q)
        => /\ calls[p].kind = "ok" /\ calls[q].kind = "ok"
           /\ store[calls[p].id].completed = [k |-> "bool", v |-> calls[p].value]
           /\ store[calls[p].id].updated_at >= calls[p].committed_at

(* The part of C25 about the value alone *)
C25_LastValueStored ==
    \A p, q \in Procs :
        BothUpdated(p, q)
        => store[calls[p].id].completed = [k |-> "bool", v |-> calls[p].value]

(* The part of C25 that holds: neither of two updates of the same record   *)
(* fails because of the other                                              *)
C25_NeitherFails ==
    \A p, q \in Procs :
        BothUpdated(p, q) => (calls[p].kind = "ok" /\ calls[q].kind = "ok")

C28_DeleteNeverFalse ==
    /\ \A p \in Procs :
          (calls[p].op = "delete" /\ calls[p].pc = "done" /\ calls[p].kind = "ok")
          => calls[p].ret
    /\ \A p, q \in Procs :
          (/\ p /= q
           /\ calls[p].op = "delete" /\ calls[q].op = "delete"
           /\ calls[p].id = calls[q].id
           /\ calls[p].pc = "done" /\ calls[q].pc = "done"
           /\ calls[p].status = 204)
          => calls[q].status = 404

(* C29: if delete_todo(id) commits between update_todo(id)'s existence     *)
(* check and its write, update_todo fails with TodoNotFoundError, and the  *)
(* record stays absent from the store.                                     *)
C29_UpdateAfterDeleteNotFound ==
    \A p \in Procs :
        (calls[p].op = "update" /\ calls[p].raced /\ calls[p].pc = "done")
        => /\ calls[p].kind = "notfound"
           /\ calls[p].id \notin DOMAIN store

(* The part of C29 that holds: such an update fails, returns no Task, and  *)
(* the record stays absent                                                 *)
C29_UpdateAfterDeleteFails ==
    \A p \in Procs :
        (calls[p].op = "update" /\ calls[p].raced /\ calls[p].pc \in {"exit", "finally", "done"})
        => /\ calls[p].kind \in {"notfound", "database"}
           /\ calls[p].task = NoTask
           /\ calls[p].id \notin DOMAIN store

(* C30: every result of get_todo_statistics has total = completed +        *)
(* pending and completed <= total, also when other requests change the     *)
(* records between its three count queries.                                *)
C30_StatisticsConsistent ==
    \A p \in Procs :
        (calls[p].op = "get_todo_statistics" /\ calls[p].pc = "done")
        => /\ calls[p].statistics.total
                 = calls[p].statistics.completed + calls[p].statistics.pending
           /\ calls[p].statistics.completed <= calls[p].statistics.total
           /\ calls[p].statistics.completion_rate \in 0 .. 10000

(* C30 for a call during which no other request changes the records *)
C30_StatisticsConsistentAlone ==
    (result.op = "get_todo_statistics" /\ result.kind = "ok")
    => /\ result.statistics.total = result.statistics.completed + result.statistics.pending
       /\ result.statistics.completed <= result.statistics.total
       /\ result.statistics.completion_rate \in 0 .. 10000
       /\ result.statistics.total = Cardinality(DOMAIN store)

====
